---------------------------- MODULE Spec2Model ----------------------------
(***************************************************************************)
(* Pointer grace-area tracker of bits-ui (useGraceArea.svelte.ts).         *)
(*                                                                         *)
(* The module holds the geometry kernel (getExitSideFromRect,              *)
(* getPaddedExitPoints, getPointsFromRect, isPointInPolygon, getHull,      *)
(* getHullPresorted) as operators, and the tracker returned by             *)
(* useGraceArea as a state machine: one action per dispatched DOM event,   *)
(* per element-reference change, per timer callback and per clock tick.    *)
(* Svelte flushes the effects an event handler invalidates before the next *)
(* event is delivered, so each action includes the effect re-runs it       *)
(* causes.                                                                 *)
(***************************************************************************)
EXTENDS Integers, Sequences, FiniteSets, TLC

VARIABLES
    triggerNode,       \* triggerNode.value: an element or NoNode
    contentNode,       \* contentNode.value: an element or NoNode
    pointerGraceArea,  \* $state<Polygon | null>(): undefined, null or a polygon
    inTransit,         \* isPointerInTransit.value
    timers,            \* pending reset timeouts of isPointerInTransit (ms left)
    triggerListeners,  \* elements carrying handleTriggerLeave on "pointerleave"
    contentListeners,  \* elements carrying handleContentLeave on "pointerleave"
    docListeners,      \* number of handleTrackPointerGrace listeners on document
    sinceSet,          \* ms since isPointerInTransit.value was last set to true
    last,              \* the event handled last and what it did
    points,            \* input of the geometry kernel under check
    hull,              \* getHull(points) once applied
    hullDone,          \* whether getHull has been applied to points
    probe,             \* a point, a rect and a vertex order, for the functions below
    probeDone,         \* which function was applied to probe: "none", "pip", "side"
    pipResult,         \* isPointInPolygon(probe.pt, polygon of probe.rect)
    sideResult         \* getExitSideFromRect(probe.pt, probe.rect)

vars == <<triggerNode, contentNode, pointerGraceArea, inTransit, timers,
          triggerListeners, contentListeners, docListeners, sinceSet, last,
          points, hull, hullDone, probe, probeDone, pipResult, sideResult>>

trackerVars == <<triggerNode, contentNode, pointerGraceArea, inTransit, timers,
                 triggerListeners, contentListeners, docListeners, sinceSet, last>>

kernelVars == <<points, hull, hullDone, probe, probeDone, pipResult, sideResult>>

-----------------------------------------------------------------------------
(* Bounds and program constants *)

\* getPaddedExitPoints(exitPoint, exitSide, padding = 5)
Padding == 5

\* boxAutoReset(false, 300)
afterMs == 300

\* One clock tick of the model, in ms.
TickMs == 100

\* Pointer positions range over the grid {Padding * i : i \in -1 .. GridMax}^2.
GridMax == 4

\* The hull is checked on point sequences of length 0 .. MaxPts ...
MaxPts == 4

\* ... over the grid (0 .. HullGrid) x (0 .. 2).
HullGrid == 2

\* Rect edges range over 0 .. RectMax, probed points over (-1 .. RectMax + 1)^2.
RectMax == 3

-----------------------------------------------------------------------------
(* Geometry kernel *)

Pt(px, py) == [x |-> px, y |-> py]

Rect(t, r, b, l) == [top |-> t, right |-> r, bottom |-> b, left |-> l]

Abs(n) == IF n < 0 THEN -n ELSE n

Min2(a, b) == IF a <= b THEN a ELSE b

\* Mutant of getExitSideFromRect: the cases in the order of the declarations,
\* top, bottom, right, left.
getExitSideFromRectTopFirst(point, rect) ==
    LET top    == Abs(rect.top - point.y)
        bottom == Abs(rect.bottom - point.y)
        right  == Abs(rect.right - point.x)
        left   == Abs(rect.left - point.x)
        m      == Min2(Min2(top, bottom), Min2(right, left))
    IN  IF m = top THEN "top"
        ELSE IF m = bottom THEN "bottom"
        ELSE IF m = right THEN "right"
        ELSE IF m = left THEN "left"
        ELSE "unreachable"

\* switch (Math.min(top, bottom, right, left)) with cases left, right, top,
\* bottom in that order; "unreachable" stands for the default branch's throw.
getExitSideFromRect(point, rect) ==
    LET top    == Abs(rect.top - point.y)
        bottom == Abs(rect.bottom - point.y)
        right  == Abs(rect.right - point.x)
        left   == Abs(rect.left - point.x)
        m      == Min2(Min2(top, bottom), Min2(right, left))
    IN  IF m = left THEN "left"
        ELSE IF m = right THEN "right"
        ELSE IF m = top THEN "top"
        ELSE IF m = bottom THEN "bottom"
        ELSE "unreachable"

getPaddedExitPoints(exitPoint, exitSide) ==
    CASE exitSide = "top" ->
           << Pt(exitPoint.x - Padding, exitPoint.y + Padding),
              Pt(exitPoint.x + Padding, exitPoint.y + Padding) >>
      [] exitSide = "bottom" ->
           << Pt(exitPoint.x - Padding, exitPoint.y - Padding),
              Pt(exitPoint.x + Padding, exitPoint.y - Padding) >>
      [] exitSide = "left" ->
           << Pt(exitPoint.x + Padding, exitPoint.y - Padding),
              Pt(exitPoint.x + Padding, exitPoint.y + Padding) >>
      [] exitSide = "right" ->
           << Pt(exitPoint.x - Padding, exitPoint.y - Padding),
              Pt(exitPoint.x - Padding, exitPoint.y + Padding) >>
      [] OTHER -> << >>

getPointsFromRect(rect) ==
    << Pt(rect.left, rect.top), Pt(rect.right, rect.top),
       Pt(rect.right, rect.bottom), Pt(rect.left, rect.bottom) >>

\* const intersect = ((yi > y) !== (yj > y)) && (x < (xj - xi) * (y - yi) / (yj - yi) + xi)
\* The first conjunct makes yj - yi non-zero; on the integer coordinates of the
\* model the quotient's comparison is decided exactly by cross-multiplying.
edgeIntersects(pt, pi, pj) ==
    /\ (pi.y > pt.y) # (pj.y > pt.y)
    /\ LET d == pj.y - pi.y
           n == (pj.x - pi.x) * (pt.y - pi.y)
       IN  IF d > 0 THEN (pt.x - pi.x) * d < n
                    ELSE (pt.x - pi.x) * d > n

RECURSIVE pipLoop(_, _, _, _, _)
\* for (let i = 0, j = polygon.length - 1; i < polygon.length; j = i++)
pipLoop(pt, polygon, i, j, inside) ==
    IF i > Len(polygon) THEN inside
    ELSE pipLoop(pt, polygon, i + 1, i,
                 IF edgeIntersects(pt, polygon[i], polygon[j])
                 THEN ~inside ELSE inside)

RECURSIVE pipLoopStaleJ(_, _, _, _, _)
pipLoopStaleJ(pt, polygon, i, j, inside) ==
    IF i > Len(polygon) THEN inside
    ELSE pipLoopStaleJ(pt, polygon, i + 1, j,
                       IF edgeIntersects(pt, polygon[i], polygon[j])
                       THEN ~inside ELSE inside)

\* Mutant of isPointInPolygon: j stays polygon.length - 1 (no j = i++).
isPointInPolygonStaleJ(pt, polygon) ==
    pipLoopStaleJ(pt, polygon, 1, Len(polygon), FALSE)

isPointInPolygon(pt, polygon) ==
    pipLoop(pt, polygon, 1, Len(polygon), FALSE)

\* The comparator of newPoints.sort in getHull.
comparePoints(a, b) ==
    IF a.x < b.x THEN -1
    ELSE IF a.x > b.x THEN 1
    ELSE IF a.y < b.y THEN -1
    ELSE IF a.y > b.y THEN 1
    ELSE 0

RECURSIVE insertPoint(_, _)
insertPoint(p, s) ==
    IF s = << >> THEN << p >>
    ELSE IF comparePoints(p, Head(s)) < 0 THEN << p >> \o s
    ELSE << Head(s) >> \o insertPoint(p, Tail(s))

RECURSIVE sortPoints(_)
\* Array.prototype.sort under comparePoints (stable; ties are equal points).
sortPoints(s) ==
    IF s = << >> THEN << >>
    ELSE insertPoint(s[Len(s)], sortPoints(SubSeq(s, 1, Len(s) - 1)))

\* Mutant of hullShouldPop: strict comparison, collinear points are kept.
hullShouldPopStrict(q, r, p) ==
    (q.x - r.x) * (p.y - r.y) > (q.y - r.y) * (p.x - r.x)

\* if ((q.x - r.x) * (p.y - r.y) >= (q.y - r.y) * (p.x - r.x)) hull.pop()
hullShouldPop(q, r, p) ==
    (q.x - r.x) * (p.y - r.y) >= (q.y - r.y) * (p.x - r.x)

RECURSIVE hullPopWhile(_, _)
\* while (hull.length >= 2) { ... if (...) hull.pop(); else break; }
hullPopWhile(h, p) ==
    IF Len(h) >= 2 /\ hullShouldPop(h[Len(h)], h[Len(h) - 1], p)
    THEN hullPopWhile(SubSeq(h, 1, Len(h) - 1), p)
    ELSE h

RECURSIVE upperHullLoop(_, _, _)
\* for (let i = 0; i < points.length; i++)
upperHullLoop(pts, i, h) ==
    IF i > Len(pts) THEN h
    ELSE upperHullLoop(pts, i + 1, Append(hullPopWhile(h, pts[i]), pts[i]))

RECURSIVE lowerHullLoop(_, _, _)
\* for (let i = points.length - 1; i >= 0; i--)
lowerHullLoop(pts, i, h) ==
    IF i < 1 THEN h
    ELSE lowerHullLoop(pts, i - 1, Append(hullPopWhile(h, pts[i]), pts[i]))

pop(h) == SubSeq(h, 1, Len(h) - 1)

getHullPresorted(pts) ==
    IF Len(pts) <= 1 THEN pts
    ELSE LET upperHull == pop(upperHullLoop(pts, 1, << >>))
             lowerHull == pop(lowerHullLoop(pts, Len(pts), << >>))
         IN  IF /\ Len(upperHull) = 1
                /\ Len(lowerHull) = 1
                /\ upperHull[1].x = lowerHull[1].x
                /\ upperHull[1].y = lowerHull[1].y
             THEN upperHull
             ELSE upperHull \o lowerHull

\* Mutant of getHull: the points are not sorted first.
getHullUnsorted(pts) == getHullPresorted(pts)

getHull(pts) == getHullPresorted(sortPoints(pts))

-----------------------------------------------------------------------------
(* Values of the tracker's state *)

NoNode == "null"

\* Elements the trigger reference may hold; "s1" is an SVG element, for which
\* isHTMLElement is false.
TriggerEls == {"t1", "s1"}

\* Elements the content reference may hold.
ContentEls == {"c1", "c2"}

isHTMLElement(el) == el \in {"t1", "c1", "c2"}

\* Event targets of a document pointermove: an element inside one of the
\* trigger or content elements, an element elsewhere in the page ("other"), or
\* a node that is no element ("node", e.g. the document itself).
Targets == TriggerEls \cup ContentEls \cup {"other", "node"}

isElementOrSVGElement(target) == target # "node"

\* node.contains(target) for the disjoint elements of the model.
contains(node, target) == node = target

Undefined == [tag |-> "undefined", pts |-> << >>]

Null == [tag |-> "null", pts |-> << >>]

Polygon(pts) == [tag |-> "polygon", pts |-> pts]

\* JavaScript truthiness of pointerGraceArea: any array, even empty, is truthy.
truthy(area) == area.tag = "polygon"

\* Bounding rects the trigger element may report when it is left.
TriggerRects ==
    { Rect(0, 2 * Padding, 2 * Padding, 0),
      Rect(Padding, 3 * Padding, 2 * Padding, Padding) }

\* Bounding rects the content element may report: right of the trigger, and
\* below it.
ContentRects ==
    { Rect(0, 4 * Padding, 2 * Padding, 3 * Padding),
      Rect(3 * Padding, 2 * Padding, 4 * Padding, 0) }

\* Client points of the trigger's pointerleave events.
ExitPoints ==
    { Pt(2 * Padding, Padding), Pt(Padding, 2 * Padding),
      Pt(0, Padding), Pt(Padding, 0) }

\* Client points of the document's pointermove events.
MovePoints ==
    { Pt(Padding * i, Padding * j) : i \in -1 .. GridMax, j \in -1 .. GridMax }

\* What the last event was and what its handlers did: target and inside
\* (isPointInPolygon of the event's point in the polygon stored before it) are
\* those of a pointermove, exits counts the calls of pointerExit.trigger(),
\* hadArea and preTransit are pointerGraceArea's truthiness and
\* isPointerInTransit.value before the event.
Event(op, target, inside, exits) ==
    [op |-> op, target |-> target, inside |-> inside, exits |-> exits,
     hadArea |-> truthy(pointerGraceArea), preTransit |-> inTransit]

Max2(a, b) == IF a >= b THEN a ELSE b

\* The record of a trigger pointerleave that handleTriggerLeave handled, with
\* the event's client point and the rects the two elements reported.
LeaveEvent(el, exitPoint, triggerRect, hoverRect) ==
    Event("triggerleave", el, FALSE, 0)
        @@ [point |-> exitPoint, triggerRect |-> triggerRect, hoverRect |-> hoverRect]

\* pointerExit.trigger(): every subscriber runs now, within the handler, and
\* reads area and transit, the tracker's state at the call. The record ev of
\* the event counts the call and keeps what the subscribers saw.
pointerExitTrigger(ev, area, transit) ==
    [ev EXCEPT !.exits = @ + 1]
        @@ [sawArea |-> truthy(area), sawTransit |-> transit]

-----------------------------------------------------------------------------
(* isPointerInTransit = boxAutoReset(false, 300) *)

\* The box's setter: the pending reset is cancelled, the value replaced and a
\* new reset scheduled afterMs from now.
boxAutoResetSet(v, ms) ==
    /\ inTransit' = v
    /\ timers' = << ms >>

\* The timeout's callback: the value goes back to the default, false.
boxAutoResetExpire(i) ==
    /\ inTransit' = FALSE
    /\ timers' = SubSeq(timers, 1, i - 1) \o SubSeq(timers, i + 1, Len(timers))

-----------------------------------------------------------------------------
(* useGraceArea *)

\* Mutant of isPointerInTransitSet: the flag is a plain box, with no reset.
isPointerInTransitSetPlain(v) ==
    /\ inTransit' = v
    /\ timers' = timers

\* isPointerInTransit.value = v, with isPointerInTransit = boxAutoReset(false, 300).
isPointerInTransitSet(v) == boxAutoResetSet(v, afterMs)

\* Mutant of handleRemoveGraceArea: the polygon is dropped, the flag is kept.
handleRemoveGraceAreaKeepFlag ==
    /\ pointerGraceArea' = Null
    /\ UNCHANGED <<inTransit, timers>>

\* Mutant of handleRemoveGraceArea: only the flag is cleared.
handleRemoveGraceAreaKeepPolygon ==
    /\ UNCHANGED pointerGraceArea
    /\ isPointerInTransitSet(FALSE)

\* Mutant of handleRemoveGraceArea: the flag is cleared behind the box's
\* setter, so the reset that a create scheduled stays pending.
handleRemoveGraceAreaKeepTimer ==
    /\ pointerGraceArea' = Null
    /\ inTransit' = FALSE
    /\ UNCHANGED timers

handleRemoveGraceArea ==
    /\ pointerGraceArea' = Null
    /\ isPointerInTransitSet(FALSE)

\* Mutant of handleCreateGraceArea: the flag is assigned only when it is not
\* already true, so a repeated create leaves the earlier reset pending.
handleCreateGraceAreaNoRefresh(currentTarget, exitPoint, triggerRect, hoverRect) ==
    IF ~isHTMLElement(currentTarget)
    THEN UNCHANGED <<pointerGraceArea, inTransit, timers, sinceSet>>
    ELSE LET exitSide == getExitSideFromRect(exitPoint, triggerRect)
             paddedExitPoints == getPaddedExitPoints(exitPoint, exitSide)
             hoverTargetPoints == getPointsFromRect(hoverRect)
         IN  /\ pointerGraceArea' = Polygon(getHull(paddedExitPoints \o hoverTargetPoints))
             /\ IF inTransit THEN UNCHANGED <<inTransit, timers>>
                             ELSE isPointerInTransitSet(TRUE)
             /\ sinceSet' = 0

\* Mutant of handleCreateGraceArea: the hull is taken over the stored polygon's
\* points as well, so the new polygon grows out of the previous one.
handleCreateGraceAreaKeepOld(currentTarget, exitPoint, triggerRect, hoverRect) ==
    IF ~isHTMLElement(currentTarget)
    THEN UNCHANGED <<pointerGraceArea, inTransit, timers, sinceSet>>
    ELSE LET exitSide == getExitSideFromRect(exitPoint, triggerRect)
             paddedExitPoints == getPaddedExitPoints(exitPoint, exitSide)
             hoverTargetPoints == getPointsFromRect(hoverRect)
         IN  /\ pointerGraceArea' = Polygon(getHull(pointerGraceArea.pts
                                        \o paddedExitPoints \o hoverTargetPoints))
             /\ isPointerInTransitSet(TRUE)
             /\ sinceSet' = 0

handleCreateGraceArea(currentTarget, exitPoint, triggerRect, hoverRect) ==
    IF ~isHTMLElement(currentTarget)
    THEN UNCHANGED <<pointerGraceArea, inTransit, timers, sinceSet>>
    ELSE LET exitSide == getExitSideFromRect(exitPoint, triggerRect)
             paddedExitPoints == getPaddedExitPoints(exitPoint, exitSide)
             hoverTargetPoints == getPointsFromRect(hoverRect)
         IN  /\ pointerGraceArea' = Polygon(getHull(paddedExitPoints \o hoverTargetPoints))
             /\ isPointerInTransitSet(TRUE)
             /\ sinceSet' = 0

\* Mutant of triggerListenersEffect: the effect returns no cleanup, so the
\* listeners of earlier runs stay attached.
triggerListenersEffectLeak(t, c) ==
    triggerListeners \cup (IF t # NoNode /\ c # NoNode THEN {t} ELSE {})

\* The first $effect: its cleanup removes the listeners of the previous run,
\* then both are attached when both references are set.
triggerListenersEffect(t, c) ==
    IF t # NoNode /\ c # NoNode THEN {t} ELSE {}

contentListenersEffect(t, c) ==
    IF t # NoNode /\ c # NoNode THEN {c} ELSE {}

\* The second $effect: its cleanup removes the document listener of the
\* previous run, then one is attached when pointerGraceArea is truthy.
documentListenersEffect(area) ==
    IF truthy(area) THEN 1 ELSE 0

\* Mutant of handleTrackPointerGrace: the polygon test is made before the
\* containment test.
handleTrackPointerGraceExitFirst(target, pointerPosition) ==
    IF ~truthy(pointerGraceArea) \/ ~isElementOrSVGElement(target)
    THEN /\ UNCHANGED <<pointerGraceArea, inTransit, timers>>
         /\ last' = Event("pointermove", target, FALSE, 0)
    ELSE LET hasEnteredTarget ==
                 \/ (triggerNode # NoNode /\ contains(triggerNode, target))
                 \/ (contentNode # NoNode /\ contains(contentNode, target))
             inside == isPointInPolygon(pointerPosition, pointerGraceArea.pts)
         IN  IF ~inside
             THEN /\ handleRemoveGraceArea
                  /\ last' = pointerExitTrigger(Event("pointermove", target, inside, 0),
                                             pointerGraceArea', inTransit')
             ELSE IF hasEnteredTarget
             THEN /\ handleRemoveGraceArea
                  /\ last' = Event("pointermove", target, inside, 0)
             ELSE /\ UNCHANGED <<pointerGraceArea, inTransit, timers>>
                  /\ last' = Event("pointermove", target, inside, 0)

\* Mutant of handleTrackPointerGrace: the exit branch clears the state but
\* does not call pointerExit.trigger().
handleTrackPointerGraceNoTrigger(target, pointerPosition) ==
    IF ~truthy(pointerGraceArea) \/ ~isElementOrSVGElement(target)
    THEN /\ UNCHANGED <<pointerGraceArea, inTransit, timers>>
         /\ last' = Event("pointermove", target, FALSE, 0)
    ELSE LET hasEnteredTarget ==
                 \/ (triggerNode # NoNode /\ contains(triggerNode, target))
                 \/ (contentNode # NoNode /\ contains(contentNode, target))
             inside == isPointInPolygon(pointerPosition, pointerGraceArea.pts)
         IN  IF hasEnteredTarget \/ ~inside
             THEN /\ handleRemoveGraceArea
                  /\ last' = Event("pointermove", target, inside, 0)
             ELSE /\ UNCHANGED <<pointerGraceArea, inTransit, timers>>
                  /\ last' = Event("pointermove", target, inside, 0)

\* Mutant of handleTrackPointerGrace: a pointer inside the polygon also counts
\* as having left it.
handleTrackPointerGraceAlwaysOutside(target, pointerPosition) ==
    IF ~truthy(pointerGraceArea) \/ ~isElementOrSVGElement(target)
    THEN /\ UNCHANGED <<pointerGraceArea, inTransit, timers>>
         /\ last' = Event("pointermove", target, FALSE, 0)
    ELSE LET hasEnteredTarget ==
                 \/ (triggerNode # NoNode /\ contains(triggerNode, target))
                 \/ (contentNode # NoNode /\ contains(contentNode, target))
             inside == isPointInPolygon(pointerPosition, pointerGraceArea.pts)
         IN  IF hasEnteredTarget
             THEN /\ handleRemoveGraceArea
                  /\ last' = Event("pointermove", target, inside, 0)
             ELSE /\ handleRemoveGraceArea
                  /\ last' = pointerExitTrigger(Event("pointermove", target, inside, 0),
                                             pointerGraceArea', inTransit')

\* Mutant of handleTrackPointerGrace: the listener also returns when
\* isPointerInTransit.value is false.
handleTrackPointerGraceGated(target, pointerPosition) ==
    IF ~truthy(pointerGraceArea) \/ ~isElementOrSVGElement(target) \/ ~inTransit
    THEN /\ UNCHANGED <<pointerGraceArea, inTransit, timers>>
         /\ last' = Event("pointermove", target, FALSE, 0)
    ELSE LET hasEnteredTarget ==
                 \/ (triggerNode # NoNode /\ contains(triggerNode, target))
                 \/ (contentNode # NoNode /\ contains(contentNode, target))
             inside == isPointInPolygon(pointerPosition, pointerGraceArea.pts)
         IN  IF hasEnteredTarget
             THEN /\ handleRemoveGraceArea
                  /\ last' = Event("pointermove", target, inside, 0)
             ELSE IF ~inside
             THEN /\ handleRemoveGraceArea
                  /\ last' = pointerExitTrigger(Event("pointermove", target, inside, 0),
                                             pointerGraceArea', inTransit')
             ELSE /\ UNCHANGED <<pointerGraceArea, inTransit, timers>>
                  /\ last' = Event("pointermove", target, inside, 0)

\* Mutant of handleTrackPointerGrace: the target is not checked to be an
\* element.
handleTrackPointerGraceAnyTarget(target, pointerPosition) ==
    IF ~truthy(pointerGraceArea)
    THEN /\ UNCHANGED <<pointerGraceArea, inTransit, timers>>
         /\ last' = Event("pointermove", target, FALSE, 0)
    ELSE LET hasEnteredTarget ==
                 \/ (triggerNode # NoNode /\ contains(triggerNode, target))
                 \/ (contentNode # NoNode /\ contains(contentNode, target))
             inside == isPointInPolygon(pointerPosition, pointerGraceArea.pts)
         IN  IF hasEnteredTarget
             THEN /\ handleRemoveGraceArea
                  /\ last' = Event("pointermove", target, inside, 0)
             ELSE IF ~inside
             THEN /\ handleRemoveGraceArea
                  /\ last' = pointerExitTrigger(Event("pointermove", target, inside, 0),
                                             pointerGraceArea', inTransit')
             ELSE /\ UNCHANGED <<pointerGraceArea, inTransit, timers>>
                  /\ last' = Event("pointermove", target, inside, 0)

\* Mutant of handleTrackPointerGrace: a pointer outside the grace area is
\* reported without removing the grace area.
handleTrackPointerGraceKeepArea(target, pointerPosition) ==
    IF ~truthy(pointerGraceArea) \/ ~isElementOrSVGElement(target)
    THEN /\ UNCHANGED <<pointerGraceArea, inTransit, timers>>
         /\ last' = Event("pointermove", target, FALSE, 0)
    ELSE LET hasEnteredTarget ==
                 \/ (triggerNode # NoNode /\ contains(triggerNode, target))
                 \/ (contentNode # NoNode /\ contains(contentNode, target))
             inside == isPointInPolygon(pointerPosition, pointerGraceArea.pts)
         IN  IF hasEnteredTarget
             THEN /\ handleRemoveGraceArea
                  /\ last' = Event("pointermove", target, inside, 0)
             ELSE IF ~inside
             THEN /\ UNCHANGED <<pointerGraceArea, inTransit, timers>>
                  /\ last' = pointerExitTrigger(Event("pointermove", target, inside, 0),
                                             pointerGraceArea', inTransit')
             ELSE /\ UNCHANGED <<pointerGraceArea, inTransit, timers>>
                  /\ last' = Event("pointermove", target, inside, 0)

\* Mutant of handleTrackPointerGrace: pointerExit.trigger() is called before
\* handleRemoveGraceArea, so the subscribers run on the state of the session.
handleTrackPointerGraceTriggerFirst(target, pointerPosition) ==
    IF ~truthy(pointerGraceArea) \/ ~isElementOrSVGElement(target)
    THEN /\ UNCHANGED <<pointerGraceArea, inTransit, timers>>
         /\ last' = Event("pointermove", target, FALSE, 0)
    ELSE LET hasEnteredTarget ==
                 \/ (triggerNode # NoNode /\ contains(triggerNode, target))
                 \/ (contentNode # NoNode /\ contains(contentNode, target))
             inside == isPointInPolygon(pointerPosition, pointerGraceArea.pts)
         IN  IF hasEnteredTarget
             THEN /\ handleRemoveGraceArea
                  /\ last' = Event("pointermove", target, inside, 0)
             ELSE IF ~inside
             THEN /\ last' = pointerExitTrigger(Event("pointermove", target, inside, 0),
                                             pointerGraceArea, inTransit)
                  /\ handleRemoveGraceArea
             ELSE /\ UNCHANGED <<pointerGraceArea, inTransit, timers>>
                  /\ last' = Event("pointermove", target, inside, 0)

\* The document's pointermove listener. pointerExit.trigger() is called after
\* handleRemoveGraceArea; exits counts its calls. The record of an event that
\* is ignored for its target still tells where its point was.
handleTrackPointerGrace(target, pointerPosition) ==
    IF ~truthy(pointerGraceArea) \/ ~isElementOrSVGElement(target)
    THEN /\ UNCHANGED <<pointerGraceArea, inTransit, timers>>
         /\ last' = Event("pointermove", target,
                          /\ truthy(pointerGraceArea)
                          /\ isPointInPolygon(pointerPosition, pointerGraceArea.pts), 0)
    ELSE LET hasEnteredTarget ==
                 \/ (triggerNode # NoNode /\ contains(triggerNode, target))
                 \/ (contentNode # NoNode /\ contains(contentNode, target))
             inside == isPointInPolygon(pointerPosition, pointerGraceArea.pts)
             isPointerOutsideGraceArea == ~inside
         IN  IF hasEnteredTarget
             THEN /\ handleRemoveGraceArea
                  /\ last' = Event("pointermove", target, inside, 0)
             ELSE IF isPointerOutsideGraceArea
             THEN /\ handleRemoveGraceArea
                  /\ last' = pointerExitTrigger(Event("pointermove", target, inside, 0),
                                             pointerGraceArea', inTransit')
             ELSE /\ UNCHANGED <<pointerGraceArea, inTransit, timers>>
                  /\ last' = Event("pointermove", target, inside, 0)

-----------------------------------------------------------------------------
(* The tracker as a state machine *)

TrackerInit ==
    /\ triggerNode = NoNode
    /\ contentNode = NoNode
    /\ pointerGraceArea = Undefined
    /\ inTransit = FALSE
    /\ timers = << >>
    /\ triggerListeners = {}
    /\ contentListeners = {}
    /\ docListeners = 0
    /\ sinceSet = afterMs
    /\ last = [op |-> "init", target |-> "none", inside |-> FALSE, exits |-> 0,
               hadArea |-> FALSE, preTransit |-> FALSE]

\* No probe: the functions are not under check.
NoProbe ==
    /\ probe = [pt |-> Pt(0, 0), rect |-> Rect(0, 0, 0, 0), viaHull |-> FALSE]
    /\ probeDone = "none"
    /\ pipResult = FALSE
    /\ sideResult = "none"

Init ==
    /\ TrackerInit
    /\ points = << >>
    /\ hull = << >>
    /\ hullDone = FALSE
    /\ NoProbe

\* triggerNode.value changes; the first effect re-runs.
SetTriggerNode ==
    \E v \in (TriggerEls \cup {NoNode}) \ {triggerNode} :
        /\ triggerNode' = v
        /\ triggerListeners' = triggerListenersEffect(v, contentNode)
        /\ contentListeners' = contentListenersEffect(v, contentNode)
        /\ last' = Event("setTrigger", "none", FALSE, 0)
        /\ UNCHANGED <<contentNode, pointerGraceArea, inTransit, timers,
                       docListeners, sinceSet>>
        /\ UNCHANGED kernelVars

\* contentNode.value changes; the first effect re-runs.
SetContentNode ==
    \E v \in (ContentEls \cup {NoNode}) \ {contentNode} :
        /\ contentNode' = v
        /\ triggerListeners' = triggerListenersEffect(triggerNode, v)
        /\ contentListeners' = contentListenersEffect(triggerNode, v)
        /\ last' = Event("setContent", "none", FALSE, 0)
        /\ UNCHANGED <<triggerNode, pointerGraceArea, inTransit, timers,
                       docListeners, sinceSet>>
        /\ UNCHANGED kernelVars

\* A pointerleave event is dispatched on a trigger element: handleTriggerLeave
\* runs if that element carries it, with contentNode.value as hover target.
TriggerPointerLeave ==
    \E el \in TriggerEls :
        /\ \/ /\ el \in triggerListeners
              /\ \E e \in ExitPoints, tr \in TriggerRects, cr \in ContentRects :
                     /\ handleCreateGraceArea(el, e, tr, cr)
                     /\ last' = LeaveEvent(el, e, tr, cr)
           \/ /\ el \notin triggerListeners
              /\ UNCHANGED <<pointerGraceArea, inTransit, timers, sinceSet>>
              /\ last' = Event("triggerleave", el, FALSE, 0)
        /\ docListeners' = documentListenersEffect(pointerGraceArea')
        /\ UNCHANGED <<triggerNode, contentNode, triggerListeners, contentListeners>>
        /\ UNCHANGED kernelVars

\* A pointerleave event is dispatched on a content element.
ContentPointerLeave ==
    \E el \in ContentEls :
        /\ IF el \in contentListeners
           THEN handleRemoveGraceArea
           ELSE UNCHANGED <<pointerGraceArea, inTransit, timers>>
        /\ docListeners' = documentListenersEffect(pointerGraceArea')
        /\ last' = Event("contentleave", el, FALSE, 0)
        /\ UNCHANGED <<triggerNode, contentNode, triggerListeners, contentListeners,
                       sinceSet>>
        /\ UNCHANGED kernelVars

\* A pointermove event is dispatched on the document. A second listener, if
\* one were attached, would find what the first left and return or repeat a
\* no-op, so the handler is run once.
DocumentPointerMove ==
    \E target \in Targets :
        /\ \/ /\ docListeners > 0
              /\ \E pos \in MovePoints : handleTrackPointerGrace(target, pos)
           \/ /\ docListeners = 0
              /\ UNCHANGED <<pointerGraceArea, inTransit, timers>>
              /\ last' = Event("pointermove", target, FALSE, 0)
        /\ docListeners' = documentListenersEffect(pointerGraceArea')
        /\ UNCHANGED <<triggerNode, contentNode, triggerListeners, contentListeners,
                       sinceSet>>
        /\ UNCHANGED kernelVars

\* A reset timeout of isPointerInTransit that is due fires.
TimerFire ==
    \E i \in DOMAIN timers :
        /\ timers[i] = 0
        /\ boxAutoResetExpire(i)
        /\ last' = Event("timer", "none", FALSE, 0)
        /\ UNCHANGED <<triggerNode, contentNode, pointerGraceArea, triggerListeners,
                       contentListeners, docListeners, sinceSet>>
        /\ UNCHANGED kernelVars

\* TickMs pass. A due timeout may still be waiting for the event loop.
Tick ==
    /\ timers' = [i \in DOMAIN timers |-> Max2(0, timers[i] - TickMs)]
    /\ sinceSet' = Min2(afterMs, sinceSet + TickMs)
    /\ last' = Event("tick", "none", FALSE, 0)
    /\ UNCHANGED <<triggerNode, contentNode, pointerGraceArea, inTransit,
                   triggerListeners, contentListeners, docListeners>>
    /\ UNCHANGED kernelVars

Next ==
    \/ SetTriggerNode
    \/ SetContentNode
    \/ TriggerPointerLeave
    \/ ContentPointerLeave
    \/ DocumentPointerMove
    \/ TimerFire
    \/ Tick

Spec == Init /\ [][Next]_vars

\* The host's timer queue runs a due timeout, and time passes.
LiveSpec == Spec /\ WF_vars(TimerFire) /\ WF_vars(Tick)

-----------------------------------------------------------------------------
(* The convex hull on bounded inputs *)

GridPoints == { Pt(i, j) : i \in 0 .. HullGrid, j \in 0 .. 2 }

\* The point lists handleCreateGraceArea hands to getHull.
GraceInputs ==
    { getPaddedExitPoints(e, getExitSideFromRect(e, tr)) \o getPointsFromRect(cr) :
        e \in ExitPoints, tr \in TriggerRects, cr \in ContentRects }

\* The inputs: every sequence of at most MaxPts grid points, in any order and
\* with repetitions, and the point lists of the trigger leaves.
HullInit ==
    /\ TrackerInit
    /\ \/ \E n \in 0 .. MaxPts : points \in [1 .. n -> GridPoints]
       \/ points \in GraceInputs
    /\ hull = << >>
    /\ hullDone = FALSE
    /\ NoProbe

ApplyHull ==
    /\ ~hullDone
    /\ hull' = getHull(points)
    /\ hullDone' = TRUE
    /\ UNCHANGED <<points, probe, probeDone, pipResult, sideResult>>
    /\ UNCHANGED trackerVars

HullNext == ApplyHull

HullSpec == HullInit /\ [][HullNext]_vars

-----------------------------------------------------------------------------
(* isPointInPolygon and getExitSideFromRect on bounded inputs *)

\* Rects with integer edges, left <= right and top <= bottom; the empty ones
\* (a detached element's) included.
ProbeRects ==
    { rc \in { Rect(t, r, b, l) : t \in 0 .. RectMax, r \in 0 .. RectMax,
                                  b \in 0 .. RectMax, l \in 0 .. RectMax } :
        rc.left <= rc.right /\ rc.top <= rc.bottom }

ProbePoints == { Pt(i, j) : i \in -1 .. RectMax + 1, j \in -1 .. RectMax + 1 }

\* The polygon of a rect: its corners as getPointsFromRect lists them, or as
\* getHull orders them (the order of a stored grace area).
probePolygon(p) ==
    IF p.viaHull THEN getHull(getPointsFromRect(p.rect))
                 ELSE getPointsFromRect(p.rect)

ProbeInit ==
    /\ TrackerInit
    /\ points = << >>
    /\ hull = << >>
    /\ hullDone = FALSE
    /\ probe \in [pt : ProbePoints, rect : ProbeRects, viaHull : BOOLEAN]
    /\ probeDone = "none"
    /\ pipResult = FALSE
    /\ sideResult = "none"

ApplyIsPointInPolygon ==
    /\ probeDone = "none"
    /\ pipResult' = isPointInPolygon(probe.pt, probePolygon(probe))
    /\ probeDone' = "pip"
    /\ UNCHANGED <<points, hull, hullDone, probe, sideResult>>
    /\ UNCHANGED trackerVars

ApplyGetExitSideFromRect ==
    /\ probeDone = "none"
    /\ sideResult' = getExitSideFromRect(probe.pt, probe.rect)
    /\ probeDone' = "side"
    /\ UNCHANGED <<points, hull, hullDone, probe, pipResult>>
    /\ UNCHANGED trackerVars

ProbeNext ==
    \/ ApplyIsPointInPolygon
    \/ ApplyGetExitSideFromRect

ProbeSpec == ProbeInit /\ [][ProbeNext]_vars

-----------------------------------------------------------------------------
(* Properties of the tracker *)

PointerOps == {"triggerleave", "contentleave", "pointermove"}

\* The last event was a pointermove handled while a polygon was stored.
TrackedMove == last.op = "pointermove" /\ last.hadArea

\* The target of the last pointermove is inside the trigger or the content.
TargetEntered == last.target \in {triggerNode, contentNode}

\* The target of the last pointermove is an element outside both.
TargetElsewhere ==
    isElementOrSVGElement(last.target) /\ last.target \notin {triggerNode, contentNode}

\* C1: with a polygon stored, a pointermove whose target is an element in
\* neither the trigger nor the content and whose point is not inside the
\* polygon leaves polygon null and inTransit false and fires the exit
\* notifier exactly once.
C1_ExitClearsAndNotifiesOnce ==
    (TrackedMove /\ TargetElsewhere /\ ~last.inside)
        => (pointerGraceArea = Null /\ ~inTransit /\ last.exits = 1)

C1_Witness ==
    /\ TrackedMove /\ TargetElsewhere /\ ~last.inside
    /\ last.preTransit
    /\ last.target = "other"
    /\ triggerNode # NoNode /\ contentNode # NoNode

\* C2: with a polygon stored, a pointermove whose target is inside the
\* trigger or the content leaves polygon null and inTransit false and fires
\* no exit event, wherever the pointer is.
C2_ReentryClearsSilently ==
    (TrackedMove /\ TargetEntered)
        => (pointerGraceArea = Null /\ ~inTransit /\ last.exits = 0)

\* Re-entry reported from a point outside the stored polygon.
C2_Witness ==
    TrackedMove /\ TargetEntered /\ ~last.inside /\ last.preTransit

\* C3: with a polygon stored, a pointermove whose target is an element in
\* neither the trigger nor the content and whose point is inside the polygon
\* changes neither the polygon nor inTransit (nor its pending reset) and
\* fires no exit event.
C3_InsideIsNoOp ==
    [][ ( /\ truthy(pointerGraceArea)
          /\ last'.op = "pointermove"
          /\ isElementOrSVGElement(last'.target)
          /\ last'.target \notin {triggerNode, contentNode}
          /\ last'.inside )
        => ( /\ pointerGraceArea' = pointerGraceArea
             /\ inTransit' = inTransit
             /\ timers' = timers
             /\ last'.exits = 0 ) ]_vars

C3_Witness ==
    /\ TrackedMove /\ TargetElsewhere /\ last.inside
    /\ last.preTransit /\ inTransit /\ truthy(pointerGraceArea)

\* C4: once the trigger or the content reference is unavailable, no
\* dispatched pointer event (trigger pointerleave, content pointerleave,
\* document pointermove) changes the polygon or inTransit or fires the exit
\* notifier.
C4_NoTransitionAfterUnavailable ==
    [][ ( /\ (triggerNode = NoNode \/ contentNode = NoNode)
          /\ last'.op \in PointerOps )
        => ( /\ pointerGraceArea' = pointerGraceArea
             /\ inTransit' = inTransit
             /\ last'.exits = 0 ) ]_vars

\* C5: a flag that stays true without being assigned again is reset by its
\* timer (no behaviour keeps inTransit true for ever unless it is set true
\* again and again); while the flag is true one reset is pending; the timer's
\* callback leaves the polygon as it is and leaves no reset pending, so the
\* flag is reset once.
C5_AutoResetFires ==
    /\ []<>(~inTransit \/ sinceSet = 0)
    /\ [](inTransit => Len(timers) = 1)
    /\ [][ last'.op = "timer"
           => ( /\ pointerGraceArea' = pointerGraceArea
                /\ ~inTransit'
                /\ timers' = << >> ) ]_vars

\* The timer has reset the flag with the polygon still stored.
C5_Witness ==
    /\ last.op = "timer" /\ last.preTransit /\ ~inTransit
    /\ truthy(pointerGraceArea)
    /\ timers = << >>

\* C6: at most one reset is pending; while inTransit is true the pending
\* reset is due exactly afterMs after the last assignment of true; and a
\* reset never fires sooner than afterMs after that assignment.
C6_DebouncedReset ==
    /\ Len(timers) <= 1
    /\ inTransit => timers = << afterMs - sinceSet >>
    /\ last.op = "timer" => sinceSet >= afterMs

\* inTransit was set true again while it was still true.
C6_Witness ==
    /\ last.op = "triggerleave" /\ last.preTransit /\ last.hadArea
    /\ inTransit /\ sinceSet = 0
    /\ timers = << afterMs >>

\* C7: inTransit is true only while a polygon is stored, and a stored polygon
\* with inTransit false occurs only after the reset timer has fired, when no
\* reset is pending any more.
C7_TransitIffPolygon ==
    /\ inTransit => truthy(pointerGraceArea)
    /\ (truthy(pointerGraceArea) /\ ~inTransit) => timers = << >>

\* In the middle of a session, time having passed, flag and polygon agree.
C7_Witness ==
    /\ truthy(pointerGraceArea) /\ inTransit
    /\ last.op = "tick" /\ sinceSet = afterMs
    /\ triggerNode # NoNode /\ contentNode # NoNode

-----------------------------------------------------------------------------
(* Properties of the convex hull *)

Cross(a, b, c) == (b.x - a.x) * (c.y - a.y) - (b.y - a.y) * (c.x - a.x)

Succ(i, n) == (i % n) + 1

Range(s) == { s[i] : i \in DOMAIN s }

\* p is within the bounding box of the points of the non-empty sequence h.
InBox(p, h) ==
    /\ \E i \in DOMAIN h : h[i].x <= p.x
    /\ \E i \in DOMAIN h : h[i].x >= p.x
    /\ \E i \in DOMAIN h : h[i].y <= p.y
    /\ \E i \in DOMAIN h : h[i].y >= p.y

\* p lies on or inside the polygon h: on the same side of (or on) every edge,
\* and within the bounding box (which decides the 1- and 2-point polygons).
OnOrInside(p, h) ==
    /\ h # << >>
    /\ InBox(p, h)
    /\ \/ \A i \in DOMAIN h : Cross(h[i], h[Succ(i, Len(h))], p) >= 0
       \/ \A i \in DOMAIN h : Cross(h[i], h[Succ(i, Len(h))], p) <= 0

\* Every triple of consecutive vertices turns in the same direction.
IsConvex(h) ==
    \/ Len(h) < 3
    \/ \A i \in DOMAIN h :
         Cross(h[i], h[Succ(i, Len(h))], h[Succ(Succ(i, Len(h)), Len(h))]) > 0
    \/ \A i \in DOMAIN h :
         Cross(h[i], h[Succ(i, Len(h))], h[Succ(Succ(i, Len(h)), Len(h))]) < 0

Collinear(pts) ==
    \A i, j, k \in DOMAIN pts : Cross(pts[i], pts[j], pts[k]) = 0

Coincident(pts) == \A i, j \in DOMAIN pts : pts[i] = pts[j]

\* C9: every input point lies on or inside the polygon getHull returns, the
\* polygon's vertices are input points and it is convex; the inputs include
\* the padded exit points and content corners of every trigger leave.
C9_HullContainsInputAndIsConvex ==
    hullDone =>
        /\ \A i \in DOMAIN points : OnOrInside(points[i], hull)
        /\ Range(hull) \subseteq Range(points)
        /\ IsConvex(hull)

\* A trigger leave's six points, two of which are no vertices of the hull.
C9_Witness ==
    /\ hullDone
    /\ points \in GraceInputs
    /\ Len(hull) >= 4
    /\ \E i \in DOMAIN points : points[i] \notin Range(hull)

\* C10: one point yields that point, coincident points yield one point, and
\* collinear points that are not all equal yield exactly their two extreme
\* points.
C10_DegenerateHulls ==
    hullDone =>
        /\ Len(points) = 1 => hull = points
        /\ (points # << >> /\ Coincident(points)) => hull = << points[1] >>
        /\ (Collinear(points) /\ ~Coincident(points)) =>
              /\ Len(hull) = 2
              /\ hull[1] # hull[2]
              /\ Range(hull) \subseteq Range(points)
              /\ \A i \in DOMAIN points : InBox(points[i], hull)

\* Three distinct collinear points among the input.
C10_Witness ==
    /\ hullDone
    /\ Collinear(points) /\ Cardinality(Range(points)) >= 3
    /\ Len(hull) = 2

\* Several coincident points.
C10_WitnessCoincident ==
    hullDone /\ Len(points) >= 3 /\ Coincident(points) /\ Len(hull) = 1

-----------------------------------------------------------------------------
(* Properties of isPointInPolygon and getExitSideFromRect *)

PositiveRect(r) == r.left < r.right /\ r.top < r.bottom

StrictlyInsideRect(p, r) ==
    r.left < p.x /\ p.x < r.right /\ r.top < p.y /\ p.y < r.bottom

StrictlyOutsideRect(p, r) ==
    p.x < r.left \/ p.x > r.right \/ p.y < r.top \/ p.y > r.bottom

\* C11: for the corner polygon of a rect of positive width and height,
\* isPointInPolygon is true of every point strictly inside the rect and false
\* of every point strictly outside it.
C11_RectPolygonMembership ==
    (probeDone = "pip" /\ PositiveRect(probe.rect)) =>
        /\ StrictlyInsideRect(probe.pt, probe.rect) => pipResult
        /\ StrictlyOutsideRect(probe.pt, probe.rect) => ~pipResult

\* A point strictly inside, level with no vertex and off the diagonal.
C11_Witness ==
    /\ probeDone = "pip" /\ pipResult
    /\ StrictlyInsideRect(probe.pt, probe.rect)
    /\ probe.rect.right - probe.rect.left >= 3
    /\ probe.rect.bottom - probe.rect.top >= 2
    /\ probe.pt.x = probe.rect.left + 2

\* A point strictly outside, level with the rect's top edge.
C11_WitnessOutside ==
    /\ probeDone = "pip" /\ ~pipResult
    /\ PositiveRect(probe.rect)
    /\ probe.pt.y = probe.rect.top /\ probe.pt.x < probe.rect.left

SideOrder == << "left", "right", "top", "bottom" >>

\* |rect.side - coordinate| for the side SideOrder[k].
SideDistance(k, p, r) ==
    CASE k = 1 -> Abs(r.left - p.x)
      [] k = 2 -> Abs(r.right - p.x)
      [] k = 3 -> Abs(r.top - p.y)
      [] k = 4 -> Abs(r.bottom - p.y)

\* C12: getExitSideFromRect returns one of the four sides (the throw is not
\* reached), that side's distance is minimal, and every side before it in the
\* order left, right, top, bottom is strictly farther.
C12_ExitSideMinimalFirst ==
    probeDone = "side" =>
        \E k \in DOMAIN SideOrder :
            /\ sideResult = SideOrder[k]
            /\ \A j \in DOMAIN SideOrder :
                   SideDistance(k, probe.pt, probe.rect) <= SideDistance(j, probe.pt, probe.rect)
            /\ \A j \in 1 .. k - 1 :
                   SideDistance(k, probe.pt, probe.rect) < SideDistance(j, probe.pt, probe.rect)

\* A tie of left and top, at the top-left corner of a rect: left wins.
C12_Witness ==
    /\ probeDone = "side" /\ sideResult = "left"
    /\ PositiveRect(probe.rect)
    /\ SideDistance(1, probe.pt, probe.rect) = SideDistance(3, probe.pt, probe.rect)
    /\ SideDistance(1, probe.pt, probe.rect) < SideDistance(2, probe.pt, probe.rect)


-----------------------------------------------------------------------------
\* Trigger pointerleave

\* The last event was a pointerleave of the trigger element while both
\* references were set, so handleTriggerLeave ran.
LeaveHandled ==
    /\ last.op = "triggerleave"
    /\ triggerNode # NoNode
    /\ contentNode # NoNode
    /\ last.target = triggerNode

\* The two padded exit points of the event followed by the four corners of
\* the content's rect.
LeaveInputs(ev) ==
    getPaddedExitPoints(ev.point, getExitSideFromRect(ev.point, ev.triggerRect))
        \o getPointsFromRect(ev.hoverRect)

\* h is the convex hull of pts: a convex polygon without repeated vertices,
\* whose vertices are points of pts, with every point of pts on or inside it.
IsHullOf(h, pts) ==
    /\ Range(h) \subseteq Range(pts)
    /\ \A i, j \in DOMAIN h : h[i] = h[j] => i = j
    /\ \A i \in DOMAIN pts : OnOrInside(pts[i], h)
    /\ IsConvex(h)

\* The grace area of the last trigger pointerleave is in place.
GraceAreaCreated ==
    /\ truthy(pointerGraceArea)
    /\ IsHullOf(pointerGraceArea.pts, LeaveInputs(last))
    /\ inTransit
    /\ last.exits = 0

\* C13 as stated: after every trigger pointerleave with both references set,
\* the polygon is the hull of the event's padded exit points and the content's
\* corners, inTransit is true and no exit event fired.
C13_LeaveCreatesHull == LeaveHandled => GraceAreaCreated

\* C13 amended: after a trigger pointerleave with both references set and an
\* HTML element as trigger, from Idle or Transit, the polygon is the hull of
\* the event's padded exit points and the content's corners alone, inTransit
\* is true and no exit event fired.
C13_HtmlLeaveCreatesHull ==
    (LeaveHandled /\ isHTMLElement(last.target)) => GraceAreaCreated

\* A trigger pointerleave in Transit replaced a stored polygon.
C13_Witness ==
    /\ LeaveHandled
    /\ isHTMLElement(last.target)
    /\ last.hadArea
    /\ last.preTransit
    /\ GraceAreaCreated

-----------------------------------------------------------------------------
\* Content pointerleave and reference changes

\* The last event was a pointerleave of an element that carried the
\* content listener.
ContentLeaveHandled == last.op = "contentleave" /\ last.target \in contentListeners

\* C14: after a content pointerleave with the listeners attached the polygon
\* is null and inTransit is false, and the exit notifier was not fired,
\* whether the event came in Transit or in Idle.
C14_ContentLeaveClears ==
    ContentLeaveHandled => (pointerGraceArea = Null /\ ~inTransit /\ last.exits = 0)

\* The content was left in Transit.
C14_Witness ==
    /\ ContentLeaveHandled /\ last.hadArea /\ last.preTransit
    /\ pointerGraceArea = Null /\ ~inTransit

\* The content was left in Idle.
C14_WitnessIdle ==
    /\ ContentLeaveHandled /\ ~last.hadArea /\ ~last.preTransit
    /\ pointerGraceArea = Null /\ ~inTransit

\* The last event set a reference to null while a polygon was stored.
BecameUnavailable ==
    /\ \/ last.op = "setTrigger" /\ triggerNode = NoNode
       \/ last.op = "setContent" /\ contentNode = NoNode
    /\ last.hadArea

\* C15: when a reference becomes null while a polygon is stored, the change
\* itself leaves the polygon null and inTransit false.
C15_UnavailableDestroysSession ==
    BecameUnavailable => (pointerGraceArea = Null /\ ~inTransit)

\* C16: the trigger's pointerleave listener is on the trigger and the
\* content's on the content exactly when both references are set, and no
\* other element carries one: at most one of each kind, none on an element
\* an earlier reference value named.
C16_ListenersIffBothSet ==
    /\ triggerListeners =
         IF triggerNode # NoNode /\ contentNode # NoNode THEN {triggerNode} ELSE {}
    /\ contentListeners =
         IF triggerNode # NoNode /\ contentNode # NoNode THEN {contentNode} ELSE {}
    /\ Cardinality(triggerListeners) <= 1
    /\ Cardinality(contentListeners) <= 1

\* A reference was set again after a session had been tracked with an earlier
\* value of it, and the listeners are on the current elements.
C16_Witness ==
    /\ last.op = "setTrigger" /\ last.hadArea
    /\ triggerNode = "s1" /\ contentNode = "c2"
    /\ triggerListeners = {"s1"} /\ contentListeners = {"c2"}

-----------------------------------------------------------------------------
\* Ignored events, the reset timer and the exit notifier

\* C17: a document pointermove whose target is no element changes neither
\* the polygon nor inTransit (nor its pending reset) and fires no exit event,
\* wherever its point is; a trigger pointerleave whose currentTarget is no
\* HTML element changes nothing either, so it creates no grace area.
C17_NonElementIgnored ==
    [][ ( \/ last'.op = "pointermove" /\ ~isElementOrSVGElement(last'.target)
          \/ last'.op = "triggerleave" /\ ~isHTMLElement(last'.target) )
        => ( /\ pointerGraceArea' = pointerGraceArea
             /\ inTransit' = inTransit
             /\ timers' = timers
             /\ last'.exits = 0 ) ]_vars

\* In Transit, a pointermove with a non-element target and a point outside
\* the stored polygon was ignored.
C17_Witness ==
    /\ last.op = "pointermove" /\ ~isElementOrSVGElement(last.target)
    /\ last.hadArea /\ last.preTransit /\ ~last.inside
    /\ truthy(pointerGraceArea) /\ inTransit

\* The listener of a trigger that is no HTML element ran and created nothing.
C17_WitnessLeave ==
    /\ LeaveHandled /\ ~isHTMLElement(last.target)
    /\ ~truthy(pointerGraceArea) /\ ~inTransit

\* The last event cleared the state: a handled content pointerleave, or a
\* pointermove that found a polygon and left none.
Cleared ==
    \/ ContentLeaveHandled
    \/ TrackedMove /\ ~truthy(pointerGraceArea)

\* C18: after a clear every reset still pending has all of afterMs to go,
\* so it is one the clear's own assignment scheduled and none that an earlier
\* create armed; at most one reset is ever pending; and a reset that fires
\* on a true flag fires afterMs after the create that set it, so it is that
\* create's own.
C18_ClearCancelsReset ==
    /\ [](Cleared => \A i \in DOMAIN timers : timers[i] = afterMs)
    /\ [](Len(timers) <= 1)
    /\ [][ (last'.op = "timer" /\ inTransit) => sinceSet = afterMs ]_vars

\* A clear came TickMs or more after the create, while the create's reset
\* was pending with less than afterMs to go.
C18_Witness ==
    /\ Cleared /\ last.hadArea /\ last.preTransit
    /\ sinceSet > 0 /\ sinceSet < afterMs
    /\ timers = << afterMs >>

\* C19: the exit notifier fires only in a pointermove that found a stored
\* polygon, once, and leaves no polygon; and only a trigger pointerleave
\* stores a polygon where there was none. So no event fires it in Idle, and
\* between two exit events a trigger pointerleave created a grace area.
C19_ExitOncePerSession ==
    /\ [](last.exits > 0 => ( /\ last.op = "pointermove"
                              /\ last.hadArea
                              /\ last.exits = 1
                              /\ ~truthy(pointerGraceArea) ))
    /\ [][ (~truthy(pointerGraceArea) /\ truthy(pointerGraceArea'))
             => (last'.op = "triggerleave" /\ last'.exits = 0) ]_vars

\* An exit event of a session that a trigger pointerleave opened in Idle.
C19_Witness ==
    /\ last.exits = 1 /\ last.op = "pointermove" /\ last.hadArea
    /\ pointerGraceArea = Null

\* C20: the subscribers of an exit event run on the cleared state: they
\* find no polygon and inTransit false.
C20_SubscribersSeeCleared ==
    last.exits > 0 => (~last.sawArea /\ ~last.sawTransit)

\* The exit notifier fired in Transit and its subscribers found the state
\* cleared.
C20_Witness ==
    /\ last.exits = 1 /\ last.hadArea /\ last.preTransit
    /\ ~last.sawArea /\ ~last.sawTransit
====
